---- MODULE Spec2Model ----
(***************************************************************************)
(* Transducer generators (sage.combinat.finite_state_machine_generators)  *)
(* and graph path enumeration (sage.combinat.graph_path).                 *)
(*                                                                         *)
(* Each generator is modelled by its transition function (or transition   *)
(* table) as written in the source, and by a run of the resulting          *)
(* transducer that reads one input letter per step.  Every component has   *)
(* its own variable (a record) and its own specification; the variables of *)
(* the other components stay at Idle.                                      *)
(***************************************************************************)
EXTENDS Integers, Sequences, FiniteSets, TLC

VARIABLES wait, count, gray, paths, parse, fill, rec

vars == <<wait, count, gray, paths, parse, fill, rec>>

Idle == [pc |-> "idle"]

\* ------------------------------------------------------------------------
\* Bounds of the model
\* ------------------------------------------------------------------------
MaxWord == 5          \* longest input word read by Wait / CountSubblockOccurrences
MaxThreshold == 3     \* largest threshold of Wait
MaxBlock == 3         \* longest block of CountSubblockOccurrences
MaxLetter == 1        \* input alphabet of CountSubblockOccurrences is 0..MaxLetter

\* ------------------------------------------------------------------------
\* Helpers on words
\* ------------------------------------------------------------------------
Words(S, n) == UNION {[1..m -> S] : m \in 0..n}

Last(w) == w[Len(w)]

\* ========================================================================
\* TransducerGenerators.Wait
\* ========================================================================
WaitAlphabet == {0, 1, 2}

\* Python's conversion of an input letter to bool
Truthy(input) == input # 0

\* transition(state, input) without the saturation test "state == threshold"
transition_nosat(threshold, state, input) ==
    IF ~Truthy(input) THEN <<state, FALSE>>
    ELSE <<state + 1, state + 1 = threshold>>

\* def transition(state, input) of Wait: <<new state, output letter>>
transition(threshold, state, input) ==
    IF state = threshold THEN <<threshold, TRUE>>
    ELSE IF ~Truthy(input) THEN <<state, FALSE>>
    ELSE <<state + 1, state + 1 = threshold>>

\* Wait(input_alphabet, threshold): the transducer starts in state 0
WaitInit ==
    /\ wait \in {[pc |-> "run", threshold |-> th, state |-> 0,
                  input |-> <<>>, output |-> <<>>, visited |-> <<0>>]
                 : th \in 1..MaxThreshold}
    /\ count = Idle /\ gray = Idle /\ paths = Idle
    /\ parse = Idle /\ fill = Idle /\ rec = Idle

\* the transducer reads one letter: state and output follow transition
WaitRead ==
    /\ wait.pc = "run"
    /\ Len(wait.input) < MaxWord
    /\ \E a \in WaitAlphabet :
         LET res == transition(wait.threshold, wait.state, a)
         IN wait' = [wait EXCEPT !.state = res[1],
                                 !.input = Append(@, a),
                                 !.output = Append(@, res[2]),
                                 !.visited = Append(@, res[1])]
    /\ UNCHANGED <<count, gray, paths, parse, fill, rec>>

SpecWait == WaitInit /\ [][WaitRead]_vars

\* number of truthy letters among the first j letters of w
RECURSIVE TruthyCount(_, _)
TruthyCount(w, j) ==
    IF j = 0 THEN 0
    ELSE TruthyCount(w, j - 1) + (IF Truthy(w[j]) THEN 1 ELSE 0)

\* C8: the j-th output letter of Wait is True iff at least threshold of the
\* input letters read up to and including the j-th are truthy; once True is
\* written every later output is True; the state never decreases and never
\* exceeds threshold.
C8_WaitOutput ==
    wait.pc = "run" =>
      /\ Len(wait.output) = Len(wait.input)
      /\ \A j \in 1..Len(wait.output) :
           wait.output[j] = (TruthyCount(wait.input, j) >= wait.threshold)
      /\ \A i, j \in 1..Len(wait.output) :
           (i <= j /\ wait.output[i]) => wait.output[j]
      /\ \A i \in 1..Len(wait.visited) :
           /\ wait.visited[i] <= wait.threshold
           /\ i > 1 => wait.visited[i - 1] <= wait.visited[i]

\* a run that reached the threshold and went on reading, truthy letters too
C8_Witness ==
    /\ wait.pc = "run"
    /\ wait.threshold = 2
    /\ Len(wait.input) = MaxWord
    /\ TruthyCount(wait.input, Len(wait.input)) > wait.threshold
    /\ ~wait.output[1] /\ Last(wait.output)

\* ========================================================================
\* TransducerGenerators.CountSubblockOccurrences
\* ========================================================================
CountAlphabet == 0..MaxLetter

\* what[k:] of Python (k counted from 0)
Drop(what, k) == SubSeq(what, k + 1, Len(what))

\* def starts_with(what, pattern)
starts_with(what, pattern) ==
    /\ Len(what) >= Len(pattern)
    /\ SubSeq(what, 1, Len(pattern)) = pattern

\* the while loop of transition_function: the least k >= k0 such that
\* block starts with current[k:]
RECURSIVE shift(_, _, _)
shift(block, current, k) ==
    IF starts_with(block, Drop(current, k)) THEN k
    ELSE shift(block, current, k + 1)

\* transition_function that falls back to the empty state after a mismatch
transition_function_reset(block, read, input) ==
    LET current == Append(read, input)
    IN IF starts_with(block, current) /\ Len(block) > Len(current)
       THEN <<current, 0>>
       ELSE <<<<>>, IF block = current THEN 1 ELSE 0>>

\* def transition_function(read, input): <<new state, output letter>>
transition_function(block, read, input) ==
    LET current == Append(read, input)
    IN IF starts_with(block, current) /\ Len(block) > Len(current)
       THEN <<current, 0>>
       ELSE LET k == shift(block, current, 1)
            IN <<Drop(current, k), IF block = current THEN 1 ELSE 0>>

\* the states the Transducer constructor finds from the initial state ()
RECURSIVE CountExplore(_, _)
CountExplore(block, S) ==
    LET N == S \cup {transition_function(block, s, a)[1]
                     : s \in S, a \in CountAlphabet}
    IN IF N = S THEN S ELSE CountExplore(block, N)

\* for s in T.iter_states(): s.is_final = True
CountFinalStates(block) == CountExplore(block, {<<>>})

CountInit ==
    /\ count \in {[pc |-> "run", block |-> b, state |-> <<>>,
                   input |-> <<>>, output |-> <<>>]
                  : b \in Words(CountAlphabet, MaxBlock) \ {<<>>}}
    /\ wait = Idle /\ gray = Idle /\ paths = Idle
    /\ parse = Idle /\ fill = Idle /\ rec = Idle

CountRead ==
    /\ count.pc = "run"
    /\ Len(count.input) < MaxWord
    /\ \E a \in CountAlphabet :
         LET res == transition_function(count.block, count.state, a)
         IN count' = [count EXCEPT !.state = res[1],
                                   !.input = Append(@, a),
                                   !.output = Append(@, res[2])]
    /\ UNCHANGED <<wait, gray, paths, parse, fill, rec>>

SpecCount == CountInit /\ [][CountRead]_vars

\* the block occurs in w ending at position j (positions counted from 1)
OccursAt(block, w, j) ==
    /\ j >= Len(block)
    /\ SubSeq(w, j - Len(block) + 1, j) = block

\* C7: CountSubblockOccurrences writes one output letter per input letter,
\* o_j = 1 iff the block occurs in the input ending at position j (overlapping
\* occurrences included) and o_j = 0 otherwise, and the state reached is final.
C7_CountOutput ==
    count.pc = "run" =>
      /\ Len(count.output) = Len(count.input)
      /\ \A j \in 1..Len(count.output) :
           count.output[j] = IF OccursAt(count.block, count.input, j) THEN 1 ELSE 0
      /\ count.state \in CountFinalStates(count.block)

\* two overlapping occurrences of the block 101 in the input 10101
C7_Witness ==
    /\ count.pc = "run"
    /\ count.block = <<1, 0, 1>>
    /\ count.input = <<1, 0, 1, 0, 1>>
    /\ count.output = <<0, 0, 1, 0, 1>>

\* ========================================================================
\* Running a transducer given by a set of transitions
\* ========================================================================
\* n.digits(base): the digits of n >= 0, least significant first ([] for 0)
RECURSIVE Digits(_, _)
Digits(n, b) ==
    IF n = 0 THEN <<>> ELSE <<n % b>> \o Digits(n \div b, b)

\* the transition of T leaving state q with input letter a
TransitionFrom(T, q, a) ==
    CHOOSE t \in T : t.from = q /\ t.word_in = a

HasTransition(T, q, a) == \E t \in T : t.from = q /\ t.word_in = a

States(T) == {t.from : t \in T} \cup {t.to : t \in T}

\* find_final_word_out of construct_final_word_out([letter]): the output
\* written when reading letter until a final state is reached, followed by
\* that state's final output (kind "word").  Kind "cycle" when the states
\* visited repeat before a final state is reached (ValueError), kind "none"
\* when a state has no transition with that letter.
\* final maps each final state to its final output word.
RECURSIVE find_final_word_out(_, _, _, _, _)
find_final_word_out(T, final, letter, q, in_progress) ==
    IF q \in DOMAIN final THEN [kind |-> "word", word |-> final[q]]
    ELSE IF q \in in_progress THEN [kind |-> "cycle", word |-> <<>>]
    ELSE IF ~HasTransition(T, q, letter) THEN [kind |-> "none", word |-> <<>>]
    ELSE LET t == TransitionFrom(T, q, letter)
             out == find_final_word_out(T, final, letter, t.to,
                                        in_progress \cup {q})
         IN IF out.kind = "word"
            THEN [kind |-> "word", word |-> t.word_out \o out.word]
            ELSE out

\* ========================================================================
\* TransducerGenerators.GrayCode
\* ========================================================================
MaxV == 40            \* largest integer converted by GrayCode

\* the transition list with the two outputs of state 2 exchanged
GrayTransitions_exchanged ==
    { [from |-> 0, to |-> 1, word_in |-> 0, word_out |-> <<>>],
      [from |-> 0, to |-> 2, word_in |-> 1, word_out |-> <<>>],
      [from |-> 1, to |-> 1, word_in |-> 0, word_out |-> <<0>>],
      [from |-> 1, to |-> 2, word_in |-> 1, word_out |-> <<1>>],
      [from |-> 2, to |-> 1, word_in |-> 0, word_out |-> <<0>>],
      [from |-> 2, to |-> 2, word_in |-> 1, word_out |-> <<1>>] }

\* the transition list of GrayCode (output None is the empty word)
GrayTransitions ==
    { [from |-> 0, to |-> 1, word_in |-> 0, word_out |-> <<>>],
      [from |-> 0, to |-> 2, word_in |-> 1, word_out |-> <<>>],
      [from |-> 1, to |-> 1, word_in |-> 0, word_out |-> <<0>>],
      [from |-> 1, to |-> 2, word_in |-> 1, word_out |-> <<1>>],
      [from |-> 2, to |-> 1, word_in |-> 0, word_out |-> <<1>>],
      [from |-> 2, to |-> 2, word_in |-> 1, word_out |-> <<0>>] }

\* final_states=[1], each with an empty final output
GrayFinalGiven == [q \in {1} |-> <<>>]

\* with_final_word_out=[0]: the final output of every state after
\* construct_final_word_out([0]); states left non-final are not in the domain
GrayFinal ==
    LET word(q) == find_final_word_out(GrayTransitions, GrayFinalGiven, 0, q, {})
        made == {q \in States(GrayTransitions) : word(q).kind = "word"}
    IN [q \in made |-> word(q).word]

\* G(v.digits(base=2)) is called on the binary digits of v; initial state 0
GrayInit ==
    /\ gray \in {[pc |-> "run", v |-> v, rest |-> Digits(v, 2), state |-> 0,
                  output |-> <<>>, accepted |-> FALSE] : v \in 0..MaxV}
    /\ wait = Idle /\ count = Idle /\ paths = Idle
    /\ parse = Idle /\ fill = Idle /\ rec = Idle

\* the transducer reads the next digit
GrayRead ==
    /\ gray.pc = "run"
    /\ gray.rest # <<>>
    /\ LET t == TransitionFrom(GrayTransitions, gray.state, Head(gray.rest))
       IN gray' = [gray EXCEPT !.state = t.to,
                               !.rest = Tail(@),
                               !.output = @ \o t.word_out]
    /\ UNCHANGED <<wait, count, paths, parse, fill, rec>>

\* end of input: the word is accepted if the state is final, and the final
\* output of the state is written
GrayEnd ==
    /\ gray.pc = "run"
    /\ gray.rest = <<>>
    /\ gray' = [gray EXCEPT
                  !.pc = "done",
                  !.accepted = gray.state \in DOMAIN GrayFinal,
                  !.output = IF gray.state \in DOMAIN GrayFinal
                             THEN @ \o GrayFinal[gray.state] ELSE @]
    /\ UNCHANGED <<wait, count, paths, parse, fill, rec>>

SpecGray == GrayInit /\ [][GrayRead \/ GrayEnd]_vars

\* bitwise exclusive or of two naturals
RECURSIVE Xor(_, _)
Xor(a, b) ==
    IF a = 0 /\ b = 0 THEN 0
    ELSE (((a % 2) + (b % 2)) % 2) + 2 * Xor(a \div 2, b \div 2)

\* C9: GrayCode has exactly 3 states, and its output on the binary digits of
\* v (least significant first), final output included, is accepted and equals
\* the binary digits of v XOR floor(v/2).
C9_GrayOutput ==
    /\ gray.pc # "idle" => Cardinality(States(GrayTransitions)) = 3
    /\ gray.pc = "done" =>
         /\ gray.accepted
         /\ gray.output = Digits(Xor(gray.v, gray.v \div 2), 2)

\* v = 9 is converted to 1011 (least significant first), as in the docstring
C9_Witness ==
    /\ gray.pc = "done"
    /\ gray.v = 9
    /\ gray.output = <<1, 0, 1, 1>>

\* ========================================================================
\* GraphPaths(g, source=s): GraphPaths_s.list
\* ========================================================================
NumVertices == 3      \* the vertices of g are 1..NumVertices
MaxMult == 2          \* largest number of parallel edges between two vertices

Vertices == 1..NumVertices

\* the pairs that may carry edges: every edge goes from a smaller to a
\* larger vertex, so the graph is acyclic
Pairs == {e \in Vertices \X Vertices : e[1] < e[2]}

\* the acyclic multi-digraphs: g[u][v] is the number of edges from u to v
Graphs ==
    {[u \in Vertices |-> [v \in Vertices |->
                            IF u < v THEN m[<<u, v>>] ELSE 0]]
       : m \in [Pairs -> 0..MaxMult]}

\* n copies of x
Copies(x, n) == [i \in 1..n |-> x]

\* the edges leaving v when parallel edges are reported once
RECURSIVE outgoing_edges_simple_from(_, _, _)
outgoing_edges_simple_from(g, v, w) ==
    IF w > NumVertices THEN <<>>
    ELSE Copies(<<v, w>>, IF g[v][w] > 0 THEN 1 ELSE 0)
         \o outgoing_edges_simple_from(g, v, w + 1)

outgoing_edges_simple(g, v) == outgoing_edges_simple_from(g, v, 1)

\* the edges (v, w) leaving v with w >= w0, in the order of their targets,
\* each parallel edge listed
RECURSIVE outgoing_edges_from(_, _, _)
outgoing_edges_from(g, v, w) ==
    IF w > NumVertices THEN <<>>
    ELSE Copies(<<v, w>>, g[v][w]) \o outgoing_edges_from(g, v, w + 1)

\* GraphPaths_common.outgoing_edges(v)
outgoing_edges(g, v) == outgoing_edges_from(g, v, 1)

\* [ [v]+path for path in target_paths ]
Prepend(v, target_paths) ==
    [i \in 1..Len(target_paths) |-> <<v>> \o target_paths[i]]

\* GraphPaths_common.outgoing_paths(v)
RECURSIVE outgoing_paths(_, _)
outgoing_paths(g, v) ==
    LET edges == outgoing_edges(g, v)
        source_paths[i \in 0..Len(edges)] ==
            IF i = 0 THEN << <<v>> >>
            ELSE source_paths[i - 1]
                 \o Prepend(v, outgoing_paths(g, edges[i][2]))
    IN source_paths[Len(edges)]

\* a call GraphPaths(g, source=s); NumVertices + 1 is a vertex not in g
PathsInit ==
    /\ paths \in {[pc |-> "call", g |-> g, source |-> s, list |-> <<>>]
                  : g \in Graphs, s \in 1..(NumVertices + 1)}
    /\ wait = Idle /\ count = Idle /\ gray = Idle
    /\ parse = Idle /\ fill = Idle /\ rec = Idle

\* GraphPaths: source must be in g, else ValueError
GraphPaths ==
    /\ paths.pc = "call"
    /\ paths' = [paths EXCEPT !.pc = IF paths.source \in Vertices
                                     THEN "GraphPaths_s" ELSE "ValueError"]
    /\ UNCHANGED <<wait, count, gray, parse, fill, rec>>

\* GraphPaths_s.list
GraphPaths_s_list ==
    /\ paths.pc = "GraphPaths_s"
    /\ paths' = [paths EXCEPT !.pc = "listed",
                              !.list = outgoing_paths(paths.g, paths.source)]
    /\ UNCHANGED <<wait, count, gray, parse, fill, rec>>

SpecPaths == PathsInit /\ [][GraphPaths \/ GraphPaths_s_list]_vars

\* the number of walks, as sequences of edges, along the vertex sequence p
RECURSIVE Walks(_, _)
Walks(g, p) ==
    IF Len(p) <= 1 THEN 1 ELSE g[p[1]][p[2]] * Walks(g, Tail(p))

\* how often p occurs in the list l
Occurrences(l, p) == Cardinality({i \in 1..Len(l) : l[i] = p})

\* C10: the list of GraphPaths(g, source=s) starts with [s]; every entry
\* starts with s and follows edges of g; and every vertex sequence starting
\* at s occurs as often as there are walks along it (its number of edge
\* sequences), so parallel edges give repeated entries: an entry occurs as
\* often as it has walks, and a sequence with a walk is an entry.
C10_PathList ==
    paths.pc = "listed" =>
      LET l == paths.list
          s == paths.source
      IN /\ l[1] = <<s>>
         /\ \A i \in 1..Len(l) :
              /\ Len(l[i]) \in 1..NumVertices
              /\ l[i][1] = s
              /\ \A j \in 1..(Len(l[i]) - 1) : paths.g[l[i][j]][l[i][j + 1]] > 0
         /\ \A i \in 1..Len(l) : Occurrences(l, l[i]) = Walks(paths.g, l[i])
         /\ \A p \in Words(Vertices, NumVertices) :
              (p # <<>> /\ p[1] = s /\ Walks(paths.g, p) > 0)
                 => \E i \in 1..Len(l) : l[i] = p

\* a double edge on the way: the same vertex list is listed twice
C10_Witness ==
    /\ paths.pc = "listed"
    /\ paths.source = 1
    /\ paths.g[1][2] = 1 /\ paths.g[2][3] = 2 /\ paths.g[1][3] = 0
    /\ paths.list = << <<1>>, <<1, 2>>, <<1, 2, 3>>, <<1, 2, 3>> >>

\* ========================================================================
\* TransducerGenerators.Recursion: parse_equation
\* ========================================================================
MaxCoeff == 9         \* largest coefficient and residue of a parsed equation

\* the bases of the digit expansion
Bases == {2, 3}

RECURSIVE Pow(_, _)
Pow(b, e) == IF e = 0 THEN 1 ELSE b * Pow(b, e - 1)

\* log(x, base=base) is in ZZ: x is a power base^e with e >= 0 (the
\* coefficients are integers, so the exponent is never negative)
LogInZZ(base, x) == \E e \in 0..MaxCoeff : Pow(base, e) = x

\* log(x, base=base) when it is an integer
Log(base, x) == CHOOSE e \in 0..MaxCoeff : Pow(base, e) = x

\* An equation f(A*n + r) == f(C*n + s) + t (right = "call") or
\* f(A*n + r) == t (right = "scalar"), with integer coefficients.
Equations ==
    [A : 0..MaxCoeff, r : -1..MaxCoeff, right : {"call"},
     C : 0..MaxCoeff, s : {-1, 0, 2}, t : {0, 1}]
    \cup [A : 0..MaxCoeff, r : -1..MaxCoeff, right : {"scalar"},
          C : {0}, s : {0}, t : {0, 1}]

ValueError(msg) == [kind |-> "ValueError", msg |-> msg]

\* Rule = collections.namedtuple('Rule', ['K', 'r', 'k', 's', 't'])
Rule(K, r, k, s, t) == [K |-> K, r |-> r, k |-> k, s |-> s, t |-> t]

\* the right-hand side of an equation whose left side gave K:
\* next_function, polynomial_right, k and the checks on k
parse_right(base, eq, K) ==
    IF eq.right # "call"
    THEN ValueError("is not an evaluation of f")
    ELSE IF eq.C = 0
    THEN ValueError("is not a polynomial of degree 1")
    ELSE IF ~LogInZZ(base, eq.C)
    THEN ValueError("is not a power of base")
    ELSE IF Log(base, eq.C) < 0
    THEN ValueError("is less than 1")
    ELSE IF Log(base, eq.C) >= K
    THEN ValueError("is greater or equal than")
    ELSE [kind |-> "rule", rule |-> Rule(K, eq.r, Log(base, eq.C), eq.s, eq.t)]

\* parse_equation without the test 0 <= r < base_power_K
parse_equation_any_r(base, eq) ==
    IF eq.A = 0 /\ eq.right = "scalar"
    THEN [kind |-> "initial", r |-> eq.r, t |-> eq.t]
    ELSE IF eq.A = 0
    THEN ValueError("is not a polynomial of degree 1")
    ELSE IF ~LogInZZ(base, eq.A)
    THEN ValueError("is not a power of base")
    ELSE IF Log(base, eq.A) < 1
    THEN ValueError("is less than base")
    ELSE parse_right(base, eq, Log(base, eq.A))

\* def parse_equation(equation): a rule to append, an initial value to
\* record, or the ValueError raised
parse_equation(base, eq) ==
    IF eq.A = 0 /\ eq.right = "scalar"
    THEN [kind |-> "initial", r |-> eq.r, t |-> eq.t]
    ELSE IF eq.A = 0
    THEN ValueError("is not a polynomial of degree 1")
    ELSE IF ~LogInZZ(base, eq.A)
    THEN ValueError("is not a power of base")
    ELSE IF Log(base, eq.A) < 1
    THEN ValueError("is less than base")
    ELSE IF ~(0 <= eq.r /\ eq.r < eq.A)
    THEN ValueError("0 <= r < base_power_K does not hold")
    ELSE parse_right(base, eq, Log(base, eq.A))

\* Recursion(recursions, f, n, base) with one equation: rules = [],
\* initial_values = {}
ParseInit ==
    /\ parse \in {[pc |-> "for equation in recursions", base |-> b,
                   equation |-> eq, rules |-> <<>>, initial_values |-> <<>>,
                   error |-> "none"]
                  : b \in Bases, eq \in Equations}
    /\ wait = Idle /\ count = Idle /\ gray = Idle /\ paths = Idle
    /\ fill = Idle /\ rec = Idle

\* for equation in recursions: parse_equation(equation)
ParseEquation ==
    /\ parse.pc = "for equation in recursions"
    /\ LET res == parse_equation(parse.base, parse.equation)
       IN parse' =
            IF res.kind = "rule"
            THEN [parse EXCEPT !.pc = "parsed", !.rules = Append(@, res.rule)]
            ELSE IF res.kind = "initial"
            THEN [parse EXCEPT !.pc = "parsed",
                               !.initial_values = Append(@, <<res.r, res.t>>)]
            ELSE [parse EXCEPT !.pc = "ValueError", !.error = res.msg]
    /\ UNCHANGED <<wait, count, gray, paths, fill, rec>>

SpecParse == ParseInit /\ [][ParseEquation]_vars

\* the bounds of a rule f(base^K*n + r) == f(base^k*n + s) + t
RuleBounds(base, eq) ==
    \E K \in 1..MaxCoeff :
        /\ eq.A = Pow(base, K)
        /\ 0 <= eq.r /\ eq.r < Pow(base, K)
        /\ \E k \in 0..(K - 1) : eq.C = Pow(base, k)

MaxK == 2             \* largest K of a rule
MaxRules == 3         \* longest list of rules

None == [none |-> TRUE]

\* RuleRight = collections.namedtuple('Rule', ['k', 's', 't'])
RuleRight(k, s, t) == [k |-> k, s |-> s, t |-> t]

\* max_K = max(rule.K for rule in rules)
max_K(rules) ==
    CHOOSE K \in {rules[i].K : i \in 1..Len(rules)} :
        \A i \in 1..Len(rules) : rules[i].K <= K

\* residues = [[None for r in range(base**k)] for k in range(max_K + 1)]
NoResidues(base, maxK) ==
    [level \in 0..maxK |-> [R \in 0..(Pow(base, level) - 1) |-> None]]

\* The loops over m and ell for one rule, from (m, ell) on: the table after
\* them, or the conflict that raises ValueError.  R is computed with 2**rule.K
\* as in the source.
RECURSIVE fill_rule(_, _, _, _, _, _)
fill_rule(base, maxK, rule, residues, m, ell) ==
    IF m > maxK - rule.K
    THEN [residues |-> residues, conflict |-> None]
    ELSE IF ell >= Pow(base, m)
    THEN fill_rule(base, maxK, rule, residues, m + 1, 0)
    ELSE LET R == rule.r + Pow(2, rule.K) * ell
         IN IF residues[rule.K + m][R] # None
            THEN [residues |-> residues,
                  conflict |-> [R |-> R, modulus |-> Pow(base, rule.K + m)]]
            ELSE fill_rule(base, maxK, rule,
                           [residues EXCEPT ![rule.K + m][R] =
                               RuleRight(rule.k + m, rule.s * Pow(base, m), rule.t)],
                           m, ell + 1)

\* missing_residues: the R from R0 on with residues[max_K][R] None, in order
RECURSIVE missing_residues(_, _)
missing_residues(top, R) ==
    IF R \notin DOMAIN top THEN <<>>
    ELSE (IF top[R] = None THEN <<R>> ELSE <<>>) \o missing_residues(top, R + 1)

\* the rules f(base^K*n + r) == f(n + 1) the table is filled from; the table's
\* coverage reads K and r only
FillRules(base) ==
    UNION {{Rule(K, r, 0, 1, 0) : r \in 0..(Pow(base, K) - 1)} : K \in 1..MaxK}

\* a nonempty list of parsed rules (max_K of no rules raises before the
\* table is made)
FillInit ==
    /\ fill \in UNION {{[pc |-> "for rule in rules", base |-> b,
                         rules |-> rules, i |-> 1,
                         residues |-> NoResidues(b, max_K(rules)),
                         error |-> "none", R |-> 0, modulus |-> 0,
                         missing |-> <<>>]
                        : rules \in Words(FillRules(b), MaxRules) \ {<<>>}}
                       : b \in Bases}
    /\ wait = Idle /\ count = Idle /\ gray = Idle /\ paths = Idle
    /\ parse = Idle /\ rec = Idle

\* for rule in rules: one rule entered in the table, or ValueError
FillRule ==
    /\ fill.pc = "for rule in rules"
    /\ fill.i <= Len(fill.rules)
    /\ LET res == fill_rule(fill.base, max_K(fill.rules), fill.rules[fill.i],
                            fill.residues, 0, 0)
       IN fill' =
            IF res.conflict # None
            THEN [fill EXCEPT !.pc = "ValueError",
                              !.error = "Conflicting rules",
                              !.R = res.conflict.R,
                              !.modulus = res.conflict.modulus]
            ELSE [fill EXCEPT !.i = @ + 1, !.residues = res.residues]
    /\ UNCHANGED <<wait, count, gray, paths, parse, rec>>

\* missing_residues and its ValueError
FillMissing ==
    /\ fill.pc = "for rule in rules"
    /\ fill.i > Len(fill.rules)
    /\ LET missing == missing_residues(fill.residues[max_K(fill.rules)], 0)
       IN fill' =
            IF missing # <<>>
            THEN [fill EXCEPT !.pc = "ValueError",
                              !.error = "Missing recursions",
                              !.missing = missing,
                              !.modulus = Pow(fill.base, max_K(fill.rules))]
            ELSE [fill EXCEPT !.pc = "covered"]
    /\ UNCHANGED <<wait, count, gray, paths, parse, rec>>

SpecFill == FillInit /\ [][FillRule \/ FillMissing]_vars

\* the rules i and j cover a common residue class
Overlap(base, rules, i, j) ==
    LET M == Pow(base, IF rules[i].K <= rules[j].K
                       THEN rules[i].K ELSE rules[j].K)
    IN rules[i].r % M = rules[j].r % M

\* the residues modulo base^max_K that no rule covers
Uncovered(base, rules) ==
    {R \in 0..(Pow(base, max_K(rules)) - 1) :
        \A i \in 1..Len(rules) : R % Pow(base, rules[i].K) # rules[i].r}

Range(w) == {w[i] : i \in 1..Len(w)}

\* all rules were entered, or an error was raised
FillOver == fill.pc \in {"ValueError", "covered"}

\* C2: once the rules are entered without conflict, "Missing recursions" is
\* raised iff some residue modulo base^max_K is covered by no rule, and the
\* list reported is exactly the set of uncovered residues.
C2_MissingExact ==
    (FillOver /\ fill.error # "Conflicting rules") =>
      /\ fill.error = "Missing recursions" <=> Uncovered(fill.base, fill.rules) # {}
      /\ fill.error = "Missing recursions" =>
           /\ Range(fill.missing) = Uncovered(fill.base, fill.rules)
           /\ fill.modulus = Pow(fill.base, max_K(fill.rules))

\* C3: "Conflicting rules" is raised iff two of the rules cover a common
\* residue class, whatever the order of the rules.
C3_ConflictExact ==
    FillOver =>
      (fill.error = "Conflicting rules"
         <=> \E i, j \in 1..Len(fill.rules) :
               i < j /\ Overlap(fill.base, fill.rules, i, j))

\* ========================================================================
\* TransducerGenerators.Recursion: the transducer and its run
\* ========================================================================
MaxN == 6             \* largest integer whose expansion the transducer reads

\* for rule in rules: the table after the rules from i on, or the first
\* conflict
RECURSIVE fill_rules(_, _, _, _)
fill_rules(base, rules, i, residues) ==
    IF i > Len(rules) THEN [residues |-> residues, conflict |-> None]
    ELSE LET res == fill_rule(base, max_K(rules), rules[i], residues, 0, 0)
         IN IF res.conflict # None THEN res
            ELSE fill_rules(base, rules, i + 1, res.residues)

\* a state whose carry is not an integer
Fraction == <<0, -1>>

\* def transition_function((carry, look_ahead), input): the state reached
\* and the output written.  R is computed with 2**K as in the source.  n is
\* the quotient (current - R) / base**K; when the division is not exact the
\* new carry is no integer and the state reached is Fraction.
Recursion_transition_function(base, residues, state, input) ==
    LET carry == state[1]
        look_ahead == state[2]
        current == carry + input * Pow(base, look_ahead)
        K == look_ahead + 1
        R == current % Pow(2, K)
        rule == residues[K][R]
    IN IF rule # None
       THEN IF (current - R) % Pow(base, K) = 0
            THEN LET n == (current - R) \div Pow(base, K)
                     new_carry == n * Pow(base, rule.k) + rule.s
                 IN [to |-> <<new_carry, rule.k>>, word_out |-> <<rule.t>>]
            ELSE [to |-> Fraction, word_out |-> <<rule.t>>]
       ELSE [to |-> <<current, K>>, word_out |-> <<>>]

\* T = Transducer(transition_function, initial_states=[(0, 0)],
\* input_alphabet=input_alphabet): the states found from the states S
RECURSIVE RecExplore(_, _, _, _)
RecExplore(base, residues, input_alphabet, S) ==
    LET N == S \cup {Recursion_transition_function(base, residues, q, a).to
                     : q \in S \ {Fraction}, a \in input_alphabet}
    IN IF N = S THEN S
       ELSE RecExplore(base, residues, input_alphabet, N)

\* the transitions of T
RecTransitions(base, residues, input_alphabet, states) ==
    {LET res == Recursion_transition_function(base, residues, qa[1], qa[2])
     IN [from |-> qa[1], to |-> res.to, word_in |-> qa[2],
         word_out |-> res.word_out]
     : qa \in states \X input_alphabet}

NoTransducer(kind, msg) ==
    [kind |-> kind, msg |-> msg, T |-> {}, final |-> <<>>]

\* initial_final that marks the states with look_ahead 0 only
initial_final_no_look_ahead(states, initial_values) ==
    [q \in {q \in states : q[1] \in DOMAIN initial_values /\ q[2] = 0}
       |-> <<initial_values[q[1]]>>]

\* the loop over initial_values: the states with carry key are final with
\* final output value
initial_final(states, initial_values) ==
    [q \in {q \in states : q[1] \in DOMAIN initial_values}
       |-> <<initial_values[q[1]]>>]

\* the check of missing_initial_conditions left out
missing_initial_conditions_unchecked(states, final) == {}

\* missing_initial_conditions: the states that are still not final
missing_initial_conditions(states, final) == states \ DOMAIN final

\* Recursion after parsing, from the table of residues on: the transducer
\* returned (kind "Transducer"), the ValueError raised, or kind "no return"
\* when a carry is no integer: such a state is no state of a transducer that
\* computes f, and the states found from it have ever larger denominators,
\* so the construction does not end.
Recursion(base, rules, initial_values, input_alphabet) ==
    LET filled == fill_rules(base, rules, 1, NoResidues(base, max_K(rules)))
        residues == filled.residues
        states == RecExplore(base, residues, input_alphabet, {<<0, 0>>})
        T == RecTransitions(base, residues, input_alphabet, states)
        given == initial_final(states, initial_values)
        superfluous == {key \in DOMAIN initial_values :
                          \A q \in states : q[1] # key}
        word == [q \in states |-> find_final_word_out(T, given, 0, q, {})]
        final == [q \in {q \in states : word[q].kind = "word"} |-> word[q].word]
    IN IF filled.conflict # None
       THEN NoTransducer("ValueError", "Conflicting rules")
       ELSE IF missing_residues(residues[max_K(rules)], 0) # <<>>
       THEN NoTransducer("ValueError", "Missing recursions")
       ELSE IF Fraction \in states
       THEN NoTransducer("no return", "carry is not an integer")
       ELSE IF superfluous # {}
       THEN NoTransducer("ValueError", "Superfluous initial condition")
       ELSE IF \E q \in states : word[q].kind = "cycle"
       THEN NoTransducer("ValueError", "cycle and no final state")
       ELSE IF missing_initial_conditions(states, final) # {}
       THEN NoTransducer("ValueError", "Missing initial conditions")
       ELSE [kind |-> "Transducer", msg |-> "", T |-> T, final |-> final]

\* --- the calls of Recursion that are modelled ---------------------------
\* the K of the rules of these calls
RecKs == {1, 2}

\* K and r of the rules
Slots(base) ==
    UNION {{<<K, r>> : r \in 0..(Pow(base, K) - 1)} : K \in RecKs}

\* every residue modulo base^2 lies in exactly one of the classes w
CoversOnce(base, w) ==
    \A R \in 0..(Pow(base, 2) - 1) :
        Cardinality({i \in 1..Len(w) : R % Pow(base, w[i][1]) = w[i][2]}) = 1

Ascending(w) ==
    \A i \in 1..(Len(w) - 1) :
        \/ w[i][1] < w[i + 1][1]
        \/ w[i][1] = w[i + 1][1] /\ w[i][2] <= w[i + 1][2]

\* the lists of K and r of up to three rules: those covering every residue
\* class once, a single rule (residues are missing), and twice the same
\* class (a conflict)
SlotLists(base) ==
    {w \in Words(Slots(base), 3) :
        /\ w # <<>>
        /\ Ascending(w)
        /\ \/ CoversOnce(base, w)
           \/ Len(w) = 1
           \/ Len(w) = 2 /\ w[1] = w[2] /\ w[1][1] = 1}

\* k, s and t of a rule
RightSides == [k : {0, 1}, s : {-1, 0, 1}, t : {0, 1}]

RecRuleLists(base) ==
    UNION {{[i \in 1..Len(w) |->
               Rule(w[i][1], w[i][2], rs[i].k, rs[i].s, rs[i].t)]
            : rs \in {x \in [1..Len(w) -> RightSides] :
                        \A i \in 1..Len(w) : x[i].k < w[i][1]}}
           : w \in SlotLists(base)}

\* initial_values after parsing: some of f(0) == 0 or 1, f(1) == 2, f(-1) == 3
InitialValues ==
    {iv \in UNION {[keys -> 0..3] : keys \in SUBSET {-1, 0, 1}} :
        \A key \in DOMAIN iv :
            iv[key] \in (IF key = 0 THEN {0, 1} ELSE IF key = 1 THEN {2} ELSE {3})}

\* input_alphabet: None (range(base)), or the nonzero digits
InputAlphabets(base) == {0..(base - 1), 1..(base - 1)}

RecInit ==
    /\ rec \in UNION {[pc : {"call"}, base : {b}, rules : RecRuleLists(b),
                       initial_values : InitialValues,
                       input_alphabet : InputAlphabets(b),
                       msg : {""}, T : {{}}, final : {<<>>},
                       n : {0}, rest : {<<>>}, state : {<<0, 0>>},
                       output : {<<>>}, accepted : {FALSE}]
                      : b \in Bases}
    /\ wait = Idle /\ count = Idle /\ gray = Idle /\ paths = Idle
    /\ parse = Idle /\ fill = Idle

\* T = transducers.Recursion(recursions, f, n, base, input_alphabet)
RecursionCall ==
    /\ rec.pc = "call"
    /\ LET res == Recursion(rec.base, rec.rules, rec.initial_values,
                            rec.input_alphabet)
       IN rec' = [rec EXCEPT !.pc = IF res.kind = "Transducer"
                                    THEN "returned" ELSE res.kind,
                             !.msg = res.msg,
                             !.T = res.T,
                             !.final = res.final]
    /\ UNCHANGED <<wait, count, gray, paths, parse, fill>>

\* T(n.digits(base)): the run starts in the initial state (0, 0)
RecProcess ==
    /\ rec.pc = "returned"
    /\ \E n \in 0..MaxN :
         rec' = [rec EXCEPT !.pc = "reading", !.n = n,
                            !.rest = Digits(n, rec.base)]
    /\ UNCHANGED <<wait, count, gray, paths, parse, fill>>

\* the transducer reads the next digit; a digit that is no input letter
\* ends the run without output
RecRead ==
    /\ rec.pc = "reading"
    /\ rec.rest # <<>>
    /\ rec' = IF HasTransition(rec.T, rec.state, Head(rec.rest))
              THEN LET t == TransitionFrom(rec.T, rec.state, Head(rec.rest))
                   IN [rec EXCEPT !.state = t.to,
                                  !.rest = Tail(@),
                                  !.output = @ \o t.word_out]
              ELSE [rec EXCEPT !.pc = "rejected"]
    /\ UNCHANGED <<wait, count, gray, paths, parse, fill>>

\* end of input: the final output of the state is written
RecEnd ==
    /\ rec.pc = "reading"
    /\ rec.rest = <<>>
    /\ rec' = [rec EXCEPT
                 !.pc = "done",
                 !.accepted = rec.state \in DOMAIN rec.final,
                 !.output = IF rec.state \in DOMAIN rec.final
                            THEN @ \o rec.final[rec.state] ELSE @]
    /\ UNCHANGED <<wait, count, gray, paths, parse, fill>>

SpecRec == RecInit /\ [][RecursionCall \/ RecProcess \/ RecRead \/ RecEnd]_vars

\* --- the function f defined by the recursions ----------------------------
\* f(n) by the initial conditions first and the rule of n's residue class
\* else, n = base^K*m + r with m = floor(n / base^K).  Not ok when n has no
\* rule, when the rule leads back to n, or when fuel runs out (a cycle).
RECURSIVE F(_, _, _, _, _)
F(base, rules, initial_values, n, fuel) ==
    IF n \in DOMAIN initial_values
    THEN [ok |-> TRUE, val |-> initial_values[n]]
    ELSE LET is == {i \in 1..Len(rules) :
                      n % Pow(base, rules[i].K) = rules[i].r}
         IN IF fuel = 0 \/ is = {} THEN [ok |-> FALSE, val |-> 0]
            ELSE LET rule == rules[CHOOSE i \in is : TRUE]
                     m == (n - rule.r) \div Pow(base, rule.K)
                     a == Pow(base, rule.k) * m + rule.s
                     fa == F(base, rules, initial_values, a, fuel - 1)
                 IN IF a = n \/ ~fa.ok THEN [ok |-> FALSE, val |-> 0]
                    ELSE [ok |-> TRUE, val |-> fa.val + rule.t]

Fuel == MaxN + 4

\* the rule of key's residue class holds at the initial condition f(key)
Consistent(base, rules, initial_values, key) ==
    \A i \in 1..Len(rules) :
        key % Pow(base, rules[i].K) = rules[i].r =>
          LET m == (key - rules[i].r) \div Pow(base, rules[i].K)
              a == Pow(base, rules[i].k) * m + rules[i].s
              fa == F(base, rules, initial_values, a, Fuel)
          IN \/ a = key /\ rules[i].t = 0
             \/ a # key /\ fa.ok /\ initial_values[key] = fa.val + rules[i].t

\* the recursions and initial conditions define f uniquely: every residue
\* class has exactly one rule, f(n) is determined for every n in 0..MaxN,
\* and the initial conditions agree with the rules
WellDefined(base, rules, initial_values) ==
    /\ Uncovered(base, rules) = {}
    /\ \A i, j \in 1..Len(rules) : i < j => ~Overlap(base, rules, i, j)
    /\ \A n \in 0..MaxN : F(base, rules, initial_values, n, Fuel).ok
    /\ \A key \in DOMAIN initial_values :
         Consistent(base, rules, initial_values, key)

RECURSIVE SumSeq(_)
SumSeq(w) == IF w = <<>> THEN 0 ELSE Head(w) + SumSeq(Tail(w))

\* C1: for recursions and initial conditions that define f uniquely, in any
\* base, Recursion yields a transducer (or raises ValueError), and the run of
\* the transducer on the digits of n, digits in range(base), least
\* significant first, ends in a final state with the letters written, final
\* output included, summing to f(n).
C1_RecursionComputes ==
    (/\ rec.pc \notin {"idle", "call"}
     /\ rec.input_alphabet = 0..(rec.base - 1)
     /\ WellDefined(rec.base, rec.rules, rec.initial_values)) =>
      /\ rec.pc # "no return"
      /\ rec.pc = "done" =>
           /\ rec.accepted
           /\ SumSeq(rec.output)
                = F(rec.base, rec.rules, rec.initial_values, rec.n, Fuel).val

\* the states of the transducer returned
RecStates == States(rec.T) \cup {<<0, 0>>}

RecReturned == rec.pc \in {"returned", "reading", "rejected", "done"}

\* C4: a transducer returned by Recursion has no state that is not final.
C4_AllFinal ==
    RecReturned => \A q \in RecStates : q \in DOMAIN rec.final

\* the transducer of the non-adjacent form: the states with carry 1 have no
\* initial condition and get their final output by reading zeros
C4_Witness ==
    /\ rec.pc = "returned"
    /\ rec.base = 2
    /\ rec.rules = <<Rule(1, 0, 0, 0, 0), Rule(2, 1, 0, 0, 1), Rule(2, 3, 0, 1, 1)>>
    /\ DOMAIN rec.initial_values = {0}
    /\ rec.initial_values[0] = 0
    /\ RecStates = {<<0, 0>>, <<1, 1>>, <<1, 0>>}
    /\ rec.final[<<1, 1>>] = <<1, 0>>

\* the states the constructor finds for the call, when the table of residues
\* is complete
RecFound ==
    RecExplore(rec.base,
               fill_rules(rec.base, rec.rules, 1,
                          NoResidues(rec.base, max_K(rec.rules))).residues,
               rec.input_alphabet, {<<0, 0>>})

\* C5: in a transducer returned, every state whose carry is the argument r
\* of an initial condition f(r) == t is final with final output t, and every
\* such r is the carry of some state; when the transducer was constructed
\* and no state of it has carry r, ValueError "Superfluous initial condition"
\* is raised and no transducer is returned.
C5_InitialConditions ==
    /\ RecReturned =>
         \A key \in DOMAIN rec.initial_values :
           /\ \E q \in RecStates : q[1] = key
           /\ \A q \in RecStates :
                q[1] = key => /\ q \in DOMAIN rec.final
                              /\ rec.final[q] = <<rec.initial_values[key]>>
    /\ (/\ rec.pc = "ValueError"
        /\ rec.msg \notin {"Conflicting rules", "Missing recursions"}
        /\ \E key \in DOMAIN rec.initial_values :
             \A q \in RecFound : q[1] # key) =>
         /\ rec.msg = "Superfluous initial condition"
         /\ rec.T = {}

\* f(1) == 2 given for the non-adjacent form: both states with carry 1,
\* whatever their look-ahead, are final with final output 2
C5_Witness ==
    /\ rec.pc = "returned"
    /\ rec.base = 2
    /\ rec.rules = <<Rule(1, 0, 0, 0, 0), Rule(2, 1, 0, 0, 1), Rule(2, 3, 0, 1, 1)>>
    /\ DOMAIN rec.initial_values = {0, 1}
    /\ rec.final[<<1, 1>>] = <<2>>
    /\ rec.final[<<1, 0>>] = <<2>>

====
